---- MODULE Spec2Model ----
(***************************************************************************)
(* Duty cycle of the tanbo ESP32 sensor unit: cold boot, measurement, one  *)
(* CSV line appended to /data.csv, sleep interval chosen, deep sleep.      *)
(*                                                                         *)
(* Numbers.  A C float is a record [nan, v]: nan says the value is the     *)
(* IEEE not-a-number, v is the value in hundredths of the unit (degree C,  *)
(* %RH, hPa, cm).  Every ordered comparison with a NaN is false, as in C.  *)
(* A printed field ("%.1f") is a record [nan, v] with v in tenths.         *)
(***************************************************************************)
EXTENDS Integers, Sequences, FiniteSets, TLC

\* ------------------------------------------------------------------ bounds
MaxCycles == 2

\* ------------------------------------------------------- program constants
INTERVAL_NORMAL == 1800
INTERVAL_HIGH_RISK == 600
INTERVAL_NIGHT == 3600
BLAST_TEMP_MIN == 2000
BLAST_TEMP_MAX == 2800
BLAST_HUMIDITY == 8500
DefaultHour == 12
NightStart == 22
NightEnd == 5
MaxRetries == 20
DEVICE_DISCONNECTED_C == -12700
WaterTempError == -99900
ADC_MAX == 4095

\* ------------------------------------------------------------------ floats
F(x) == [nan |-> FALSE, v |-> x]
NaN == [nan |-> TRUE, v |-> 0]
FGe(a, c) == ~a.nan /\ a.v >= c
FLe(a, c) == ~a.nan /\ a.v <= c
FGt(a, c) == ~a.nan /\ a.v > c
FEq(a, c) == ~a.nan /\ a.v = c

\* "%.1f": the nearest tenth, a tie going to the even tenth; NaN prints "nan"
Round1(x) ==
  LET a == IF x < 0 THEN -x ELSE x
      q == a \div 10
      r == a % 10
      m == IF r > 5 \/ (r = 5 /\ q % 2 = 1) THEN q + 1 ELSE q
  IN  IF x < 0 THEN -m ELSE m
Fmt1(a) == IF a.nan THEN NaN ELSE F(Round1(a.v))

\* ------------------------------------------------------------- input sets
\* what bme.readTemperature / readHumidity / readPressure return in a cycle
BmeReadings ==
  { [t |-> F(2400), h |-> F(9000), p |-> F(10132500)],
    [t |-> F(2400), h |-> F(5000), p |-> F(10132500)],
    [t |-> NaN,     h |-> NaN,     p |-> NaN] }
\* what ds18b20.getTempCByIndex(0) returns
ProbeReadings == { F(DEVICE_DISCONNECTED_C), F(2150) }
\* what analogRead(WATER_LEVEL_PIN) returns
AdcReadings == { 2048 }
\* the hour of day at which a cycle wakes
CycleHours == { 3, 14, 21 }

\* -------------------------------------------------------------- CSV lines
\* a timestamp is the year and the hour strftime prints; getLocalTime succeeds
\* only for a year later than 2016
FallbackTimestamp == [year |-> 1970, hour |-> 0]
ClockYears == { 2025 }
HeaderColumns ==
  << "timestamp", "air_temp", "humidity", "pressure", "water_temp", "water_level" >>
HeaderLine == [kind |-> "header", ts |-> FallbackTimestamp, vals |-> << >>]
\* the printf arguments humidity and pressure in each other's place
DataLine_Swapped(ts, a, h, p, wt, wl) ==
  [kind |-> "data", ts |-> ts,
   vals |-> << Fmt1(a), Fmt1(p), Fmt1(h), Fmt1(wt), Fmt1(wl) >>]

DataLine(ts, a, h, p, wt, wl) ==
  [kind |-> "data", ts |-> ts,
   vals |-> << Fmt1(a), Fmt1(h), Fmt1(p), Fmt1(wt), Fmt1(wl) >>]

VARIABLES
  pc,          \* position of setup(): boot, sdbegin, sync, synced, header, read,
               \* write, calc, sleep, asleep
  cycle,       \* number of the current cold boot
  wifi,        \* build option: WIFI_SSID defined
  clockValid,  \* the RTC holds a time later than 2016 (getLocalTime succeeds)
  rtcHour,     \* hour of day of the wall clock
  rtcYear,     \* year the RTC shows when it is valid
  fileExists,  \* SD.exists("/data.csv")
  file,        \* lines of /data.csv
  bmeOk,       \* result of bme.begin(0x76)
  airTemp, humidity, pressure, waterTemp, waterLevel,
  retries,     \* syncTime's poll counter
  sleepSec,    \* setup's local: result of calcSleepInterval
  armed,       \* interval given to esp_sleep_enable_timer_wakeup, 0 when not armed
  sleepCalls,  \* calls of goToSleep in this cycle
  sdOk,        \* this cycle: "none", "ok", "fail" for SD.begin
  hdrOpen,     \* this cycle: "none", "ok", "fail" for SD.open(FILE_WRITE)
  appOpen,     \* this cycle: "none", "ok", "fail" for SD.open(FILE_APPEND)
  tsUsed,      \* this cycle: timestamp resolved by getTimestamp
  gotTime,     \* this cycle: "none", "ok", "fail" for calcSleepInterval's getLocalTime
  fileAtBoot,  \* lines of /data.csv when the cycle began
  fileAtWrite, \* lines of /data.csv when writeCSV was entered
  allOk,       \* every storage operation of every cycle so far succeeded
  handles,     \* File objects open on /data.csv
  readCount,   \* this cycle: calls of readSensors
  probeRaw,    \* this cycle: what ds18b20.getTempCByIndex(0) returned
  adcRaw,      \* this cycle: what analogRead(WATER_LEVEL_PIN) returned
  \* the dashboard (demo/src/App.jsx)
  currentDVI,   \* DashboardPage's currentDVI, in hundredths
  currentStage, \* index into STAGES of DashboardPage's currentStage
  latest,       \* the newest sensor record shown
  cards,        \* status of the three ThresholdMetric cards, once rendered
  alerts,       \* the threshold alerts listed under the stage's actions
  rendered,     \* DashboardPage has rendered
  page,              \* App: the page shown
  corrections,       \* App: the field corrections entered so far
  sprayLogs,         \* App: the spray records, newest first
  sprayOpen,         \* DashboardPage: disease whose spray panel is open, or "none"
  selectedPesticide, \* DashboardPage: name of the pesticide picked, or "none"
  sprayAmount,       \* DashboardPage: text of the amount field
  sprayArea,         \* DashboardPage: text of the area field
  today,             \* the date new Date() gives, as a day number
  lastHandler        \* the event handler that ran last

vars == << pc, cycle, wifi, clockValid, rtcHour, rtcYear, fileExists, file, bmeOk,
           airTemp, humidity, pressure, waterTemp, waterLevel, retries,
           sleepSec, armed, sleepCalls, sdOk, hdrOpen, appOpen, tsUsed,
           gotTime, fileAtBoot, fileAtWrite, allOk, handles, readCount, probeRaw,
           adcRaw, currentDVI, currentStage, latest, cards, alerts, rendered,
           page, corrections, sprayLogs, sprayOpen, selectedPesticide, sprayAmount,
           sprayArea, today, lastHandler >>

sensorVars == << airTemp, humidity, pressure, waterTemp, waterLevel >>
storeVars == << fileExists, file, handles >>
measVars == << readCount, probeRaw, adcRaw >>
stageVars == << currentDVI, currentStage, latest, cards, alerts, rendered >>
formVars == << sprayOpen, selectedPesticide, sprayAmount, sprayArea >>
uiVars == << page, corrections, sprayLogs, formVars, today, lastHandler >>
dashVars == << stageVars, uiVars >>
histVars == << sdOk, hdrOpen, appOpen, tsUsed, gotTime, fileAtBoot, fileAtWrite, allOk >>

\* ------------------------------------------------------- pure functions
\* adcToWaterLevel without "if (level < 0) level = 0"
adcToWaterLevel_NoLowClamp(rawAdc) ==
  LET level == (1100 * rawAdc - 682500) \div 1911
  IN  IF level > 2000 THEN F(2000) ELSE F(level)

\* (rawAdc * 3.3 / 4095 - 0.5) * 20 / (3.3 - 0.5) is (1100 rawAdc - 682500) / 1911
\* hundredths of a cm
\* adcToWaterLevel scaled for the sensor's 4.5 V full scale: 20.0 / (4.5 - 0.5)
adcToWaterLevel_FullScale45(rawAdc) ==
  LET level == (1650 * rawAdc - 1023750) \div 4095
  IN  IF level < 0 THEN F(0) ELSE IF level > 2000 THEN F(2000) ELSE F(level)

adcToWaterLevel(rawAdc) ==
  LET level == (1100 * rawAdc - 682500) \div 1911
  IN  IF level < 0 THEN F(0) ELSE IF level > 2000 THEN F(2000) ELSE F(level)

getTimestamp(got, tm) ==
  IF got THEN [year |-> tm.year, hour |-> tm.hour] ELSE FallbackTimestamp

\* variants of calcSleepInterval with one slip each
calcSleepInterval_RiskFirst(got, tm_hour, at, hum) ==
  LET hour == IF got THEN tm_hour ELSE DefaultHour
  IN  IF FGe(at, BLAST_TEMP_MIN) /\ FLe(at, BLAST_TEMP_MAX) /\ FGt(hum, BLAST_HUMIDITY)
      THEN INTERVAL_HIGH_RISK
      ELSE IF hour >= NightStart \/ hour < NightEnd THEN INTERVAL_NIGHT
           ELSE INTERVAL_NORMAL

calcSleepInterval_HumGe(got, tm_hour, at, hum) ==
  LET hour == IF got THEN tm_hour ELSE DefaultHour
  IN  IF hour >= NightStart \/ hour < NightEnd THEN INTERVAL_NIGHT
      ELSE IF FGe(at, BLAST_TEMP_MIN) /\ FLe(at, BLAST_TEMP_MAX) /\ FGe(hum, BLAST_HUMIDITY)
           THEN INTERVAL_HIGH_RISK
           ELSE INTERVAL_NORMAL

\* the band test written as !(t < MIN) && !(t > MAX) && !(h <= H)
calcSleepInterval_Negated(got, tm_hour, at, hum) ==
  LET hour == IF got THEN tm_hour ELSE DefaultHour
  IN  IF hour >= NightStart \/ hour < NightEnd THEN INTERVAL_NIGHT
      ELSE IF ~(~at.nan /\ at.v < BLAST_TEMP_MIN) /\ ~FGt(at, BLAST_TEMP_MAX)
              /\ ~FLe(hum, BLAST_HUMIDITY)
           THEN INTERVAL_HIGH_RISK
           ELSE INTERVAL_NORMAL

\* int hour = 0 as the default
calcSleepInterval_Hour0(got, tm_hour, at, hum) ==
  LET hour == IF got THEN tm_hour ELSE 0
  IN  IF hour >= NightStart \/ hour < NightEnd THEN INTERVAL_NIGHT
      ELSE IF FGe(at, BLAST_TEMP_MIN) /\ FLe(at, BLAST_TEMP_MAX) /\ FGt(hum, BLAST_HUMIDITY)
           THEN INTERVAL_HIGH_RISK
           ELSE INTERVAL_NORMAL

\* the final return left out
calcSleepInterval_NoDefault(got, tm_hour, at, hum) ==
  LET hour == IF got THEN tm_hour ELSE DefaultHour
  IN  IF hour >= NightStart \/ hour < NightEnd THEN INTERVAL_NIGHT
      ELSE IF FGe(at, BLAST_TEMP_MIN) /\ FLe(at, BLAST_TEMP_MAX) /\ FGt(hum, BLAST_HUMIDITY)
           THEN INTERVAL_HIGH_RISK
           ELSE 0

calcSleepInterval(got, tm_hour, at, hum) ==
  LET hour == IF got THEN tm_hour ELSE DefaultHour
  IN  IF hour >= NightStart \/ hour < NightEnd THEN INTERVAL_NIGHT
      ELSE IF FGe(at, BLAST_TEMP_MIN) /\ FLe(at, BLAST_TEMP_MAX) /\ FGt(hum, BLAST_HUMIDITY)
           THEN INTERVAL_HIGH_RISK
           ELSE INTERVAL_NORMAL

goToSleep(seconds) ==
  /\ armed' = seconds
  /\ sleepCalls' = sleepCalls + 1
  /\ pc' = "asleep"

\* ------------------------------------------------------------------- Init
\* the dashboard is not part of the sensor unit: not running
\* useState's initial values in App and DashboardPage
FormIdle ==
  /\ sprayOpen = "none"
  /\ selectedPesticide = "none"
  /\ sprayAmount = ""
  /\ sprayArea = ""

UiIdle ==
  /\ page = "dashboard"
  /\ corrections = [panicleLength |-> [null |-> TRUE, v |-> 0],
                    tillerCount |-> [null |-> TRUE, v |-> 0],
                    date |-> [null |-> TRUE, v |-> 0]]
  /\ sprayLogs = << >>
  /\ FormIdle
  /\ today = 0
  /\ lastHandler = "none"

DashIdle ==
  /\ currentDVI = 62
  /\ currentStage = 4
  /\ latest = [airTemp |-> F(0), waterTemp |-> F(0), waterLevel |-> F(0)]
  /\ cards = [airTemp |-> "none", waterTemp |-> "none", waterLevel |-> "none"]
  /\ alerts = << >>
  /\ rendered = FALSE
  /\ UiIdle

UnitInit ==
  /\ pc = "boot"
  /\ cycle = 1
  /\ wifi \in BOOLEAN
  /\ clockValid = FALSE
  /\ rtcHour \in CycleHours
  /\ rtcYear \in ClockYears
  /\ fileExists = FALSE
  /\ file = << >>
  /\ bmeOk = FALSE
  /\ airTemp = F(0) /\ humidity = F(0) /\ pressure = F(0)
  /\ waterTemp = F(0) /\ waterLevel = F(0)
  /\ retries = 0
  /\ sleepSec = 0
  /\ armed = 0
  /\ sleepCalls = 0
  /\ sdOk = "none" /\ hdrOpen = "none" /\ appOpen = "none" /\ gotTime = "none"
  /\ tsUsed = FallbackTimestamp
  /\ fileAtBoot = << >>
  /\ fileAtWrite = << >>
  /\ allOk = TRUE
  /\ handles = 0
  /\ readCount = 0 /\ probeRaw = F(0) /\ adcRaw = 0

Init == UnitInit /\ DashIdle

\* ------------------------------------------------------------------ setup
\* Serial, Wire, bme.begin, ds18b20.begin, ADC set-up
\* while (1); after a failed bme.begin
Boot_HaltOnBme ==
  /\ pc = "boot"
  /\ \E ok \in BOOLEAN : bmeOk' = ok /\ pc' = IF ok THEN "sdbegin" ELSE "halt"
  /\ UNCHANGED << measVars, dashVars >>
  /\ UNCHANGED << cycle, wifi, clockValid, rtcHour, rtcYear, storeVars, sensorVars, retries,
                  sleepSec, armed, sleepCalls, histVars >>

Boot ==
  /\ pc = "boot"
  /\ \E ok \in BOOLEAN : bmeOk' = ok
  /\ pc' = "sdbegin"
  /\ UNCHANGED << measVars, dashVars >>
  /\ UNCHANGED << cycle, wifi, clockValid, rtcHour, rtcYear, storeVars, sensorVars, retries,
                  sleepSec, armed, sleepCalls, histVars >>

\* SD.begin fails and setup returns without goToSleep: loop() spins awake
SDBeginFail_NoSleep ==
  /\ pc = "sdbegin"
  /\ sdOk' = "fail"
  /\ allOk' = FALSE
  /\ pc' = "loop"
  /\ UNCHANGED << measVars, dashVars >>
  /\ UNCHANGED << cycle, wifi, clockValid, rtcHour, rtcYear, storeVars, bmeOk,
                  sensorVars, retries, sleepSec, armed, sleepCalls, hdrOpen, appOpen,
                  tsUsed, gotTime, fileAtBoot, fileAtWrite >>

\* SD.begin fails and the interval comes from calcSleepInterval
SDBeginFail_Calc ==
  /\ pc = "sdbegin"
  /\ sdOk' = "fail"
  /\ allOk' = FALSE
  /\ goToSleep(calcSleepInterval(clockValid, rtcHour, airTemp, humidity))
  /\ UNCHANGED << measVars, dashVars >>
  /\ UNCHANGED << cycle, wifi, clockValid, rtcHour, rtcYear, storeVars, bmeOk,
                  sensorVars, retries, sleepSec, hdrOpen, appOpen, tsUsed, gotTime,
                  fileAtBoot, fileAtWrite >>

\* SD.begin fails: default interval, return
SDBeginFail ==
  /\ pc = "sdbegin"
  /\ sdOk' = "fail"
  /\ allOk' = FALSE
  /\ goToSleep(INTERVAL_NORMAL)
  /\ UNCHANGED << measVars, dashVars >>
  /\ UNCHANGED << cycle, wifi, clockValid, rtcHour, rtcYear, storeVars, bmeOk, sensorVars,
                  retries, sleepSec, hdrOpen, appOpen, tsUsed, gotTime, fileAtBoot,
                  fileAtWrite >>

\* SD.begin succeeds; syncTime is compiled in only when WIFI_SSID is defined
SDBeginOk ==
  /\ pc = "sdbegin"
  /\ sdOk' = "ok"
  /\ retries' = 0
  /\ pc' = IF wifi THEN "sync" ELSE "header"
  /\ UNCHANGED << measVars, dashVars >>
  /\ UNCHANGED << cycle, wifi, clockValid, rtcHour, rtcYear, storeVars, bmeOk, sensorVars,
                  sleepSec, armed, sleepCalls, hdrOpen, appOpen, tsUsed, gotTime,
                  fileAtBoot, fileAtWrite, allOk >>

\* the wait loop with the bound tested as retries <= 20: one poll too many
SyncPoll_OffByOne ==
  /\ pc = "sync"
  /\ \E connected \in BOOLEAN :
       IF ~connected /\ retries <= MaxRetries
       THEN retries' = retries + 1 /\ pc' = "sync"
       ELSE retries' = retries /\ pc' = "synced"
  /\ UNCHANGED << measVars, dashVars >>
  /\ UNCHANGED << cycle, wifi, clockValid, rtcHour, rtcYear, storeVars, bmeOk, sensorVars,
                  sleepSec, armed, sleepCalls, histVars >>

\* one evaluation of syncTime's loop condition, and the loop body when it holds
SyncPoll ==
  /\ pc = "sync"
  /\ \E connected \in BOOLEAN :
       IF ~connected /\ retries < MaxRetries
       THEN retries' = retries + 1 /\ pc' = "sync"
       ELSE retries' = retries /\ pc' = "synced"
  /\ UNCHANGED << measVars, dashVars >>
  /\ UNCHANGED << cycle, wifi, clockValid, rtcHour, rtcYear, storeVars, bmeOk, sensorVars,
                  sleepSec, armed, sleepCalls, histVars >>

\* after the loop: configTime and getLocalTime(5000) when connected
SyncFinish ==
  /\ pc = "synced"
  /\ \E connected \in BOOLEAN, got \in BOOLEAN :
       clockValid' = IF connected THEN (clockValid \/ got) ELSE clockValid
  /\ retries' = 0
  /\ pc' = "header"
  /\ UNCHANGED << measVars, dashVars >>
  /\ UNCHANGED << cycle, wifi, rtcHour, rtcYear, storeVars, bmeOk, sensorVars,
                  sleepSec, armed, sleepCalls, histVars >>

\* the header written in every cycle, without the SD.exists test (FILE_WRITE
\* truncates)
EnsureHeader_Always ==
  /\ pc = "header"
  /\ \E opened \in BOOLEAN :
       IF opened
       THEN /\ file' = << HeaderLine >>
            /\ fileExists' = TRUE
            /\ handles' = (handles + 1) - 1   \* SD.open, f.close
            /\ hdrOpen' = "ok"
            /\ allOk' = allOk
       ELSE /\ hdrOpen' = "fail"
            /\ allOk' = FALSE
            /\ UNCHANGED storeVars
  /\ pc' = "read"
  /\ UNCHANGED << measVars, dashVars >>
  /\ UNCHANGED << cycle, wifi, clockValid, rtcHour, rtcYear, bmeOk, sensorVars, retries,
                  sleepSec, armed, sleepCalls, sdOk, appOpen, tsUsed, gotTime,
                  fileAtBoot, fileAtWrite >>

\* the header appended in every cycle
EnsureHeader_Append ==
  /\ pc = "header"
  /\ IF TRUE
     THEN \E opened \in BOOLEAN :
            IF opened
            THEN /\ file' = Append(file, HeaderLine)
                 /\ fileExists' = TRUE
                 /\ handles' = (handles + 1) - 1   \* SD.open, f.close
                 /\ hdrOpen' = "ok"
                 /\ allOk' = allOk
            ELSE /\ hdrOpen' = "fail"
                 /\ allOk' = FALSE
                 /\ UNCHANGED storeVars
     ELSE UNCHANGED << storeVars, hdrOpen, allOk >>
  /\ pc' = "read"
  /\ UNCHANGED << measVars, dashVars >>
  /\ UNCHANGED << cycle, wifi, clockValid, rtcHour, rtcYear, bmeOk, sensorVars, retries,
                  sleepSec, armed, sleepCalls, sdOk, appOpen, tsUsed, gotTime,
                  fileAtBoot, fileAtWrite >>

\* setup giving up on the measurement when the header cannot be written
EnsureHeader_AbortOnFail ==
  /\ pc = "header"
  /\ IF ~fileExists
     THEN \E opened \in BOOLEAN :
            IF opened
            THEN /\ file' = << HeaderLine >>
                 /\ fileExists' = TRUE
                 /\ handles' = (handles + 1) - 1   \* SD.open, f.close
                 /\ hdrOpen' = "ok"
                 /\ allOk' = allOk
            ELSE /\ hdrOpen' = "fail"
                 /\ allOk' = FALSE
                 /\ UNCHANGED storeVars
     ELSE UNCHANGED << storeVars, hdrOpen, allOk >>
  /\ pc' = IF fileExists' THEN "read" ELSE "calc"
  /\ UNCHANGED << measVars, dashVars >>
  /\ UNCHANGED << cycle, wifi, clockValid, rtcHour, rtcYear, bmeOk, sensorVars, retries,
                  sleepSec, armed, sleepCalls, sdOk, appOpen, tsUsed, gotTime,
                  fileAtBoot, fileAtWrite >>

\* setup calling writeCSV straight after the header, readSensors left behind
EnsureHeader_ThenWrite ==
  /\ pc = "header"
  /\ IF ~fileExists
     THEN \E opened \in BOOLEAN :
            IF opened
            THEN /\ file' = << HeaderLine >>
                 /\ fileExists' = TRUE
                 /\ handles' = (handles + 1) - 1   \* SD.open, f.close
                 /\ hdrOpen' = "ok"
                 /\ allOk' = allOk
            ELSE /\ hdrOpen' = "fail"
                 /\ allOk' = FALSE
                 /\ UNCHANGED storeVars
     ELSE UNCHANGED << storeVars, hdrOpen, allOk >>
  /\ pc' = "write"
  /\ UNCHANGED << measVars, dashVars >>
  /\ UNCHANGED << cycle, wifi, clockValid, rtcHour, rtcYear, bmeOk, sensorVars, retries,
                  sleepSec, armed, sleepCalls, sdOk, appOpen, tsUsed, gotTime,
                  fileAtBoot, fileAtWrite >>

\* the header is written when /data.csv does not exist
EnsureHeader ==
  /\ pc = "header"
  /\ IF ~fileExists
     THEN \E opened \in BOOLEAN :
            IF opened
            THEN /\ file' = << HeaderLine >>
                 /\ fileExists' = TRUE
                 /\ handles' = (handles + 1) - 1   \* SD.open, f.close
                 /\ hdrOpen' = "ok"
                 /\ allOk' = allOk
            ELSE /\ hdrOpen' = "fail"
                 /\ allOk' = FALSE
                 /\ UNCHANGED storeVars
     ELSE UNCHANGED << storeVars, hdrOpen, allOk >>
  /\ pc' = "read"
  /\ UNCHANGED << measVars, dashVars >>
  /\ UNCHANGED << cycle, wifi, clockValid, rtcHour, rtcYear, bmeOk, sensorVars, retries,
                  sleepSec, armed, sleepCalls, sdOk, appOpen, tsUsed, gotTime,
                  fileAtBoot, fileAtWrite >>

\* readSensors without the DEVICE_DISCONNECTED_C test
ReadSensorsFrom_NoSentinel(bmeSet, probeSet, adcSet) ==
  /\ pc = "read"
  /\ \E b \in bmeSet, w \in probeSet, adc \in adcSet :
       /\ airTemp' = b.t
       /\ humidity' = b.h
       /\ pressure' = IF b.p.nan THEN NaN ELSE F(b.p.v \div 100)
       /\ probeRaw' = w
       /\ waterTemp' = w
       /\ adcRaw' = adc
       /\ waterLevel' = adcToWaterLevel(adc)
  /\ readCount' = readCount + 1
  /\ pc' = "write"
  /\ UNCHANGED dashVars
  /\ UNCHANGED << cycle, wifi, clockValid, rtcHour, rtcYear, storeVars, bmeOk, retries,
                  sleepSec, armed, sleepCalls, histVars >>

ReadSensorsFrom(bmeSet, probeSet, adcSet) ==
  /\ pc = "read"
  /\ \E b \in bmeSet, w \in probeSet, adc \in adcSet :
       /\ airTemp' = b.t
       /\ humidity' = b.h
       /\ pressure' = IF b.p.nan THEN NaN ELSE F(b.p.v \div 100)
       /\ probeRaw' = w
       /\ waterTemp' = IF FEq(w, DEVICE_DISCONNECTED_C) THEN F(WaterTempError) ELSE w
       /\ adcRaw' = adc
       /\ waterLevel' = adcToWaterLevel(adc)
  /\ readCount' = readCount + 1
  /\ pc' = "write"
  /\ UNCHANGED dashVars
  /\ UNCHANGED << cycle, wifi, clockValid, rtcHour, rtcYear, storeVars, bmeOk, retries,
                  sleepSec, armed, sleepCalls, histVars >>

ReadSensors == ReadSensorsFrom(BmeReadings, ProbeReadings, AdcReadings)

\* writeCSV returning early when no time is available
writeCSV_DropUntimed ==
  /\ pc = "write"
  /\ LET timestamp == getTimestamp(clockValid, [year |-> rtcYear, hour |-> rtcHour])
     IN  /\ tsUsed' = timestamp
         /\ \E opened \in BOOLEAN :
              IF opened
              THEN /\ file' = IF clockValid
                              THEN Append(file, DataLine(timestamp, airTemp, humidity,
                                                         pressure, waterTemp, waterLevel))
                              ELSE file
                   /\ fileExists' = TRUE
                   /\ handles' = (handles + 1) - 1   \* SD.open, f.close
                   /\ appOpen' = "ok"
                   /\ allOk' = allOk
              ELSE /\ appOpen' = "fail"
                   /\ allOk' = FALSE
                   /\ UNCHANGED storeVars
  /\ fileAtWrite' = file
  /\ pc' = "calc"
  /\ UNCHANGED << measVars, dashVars >>
  /\ UNCHANGED << cycle, wifi, clockValid, rtcHour, rtcYear, bmeOk, sensorVars, retries,
                  sleepSec, armed, sleepCalls, sdOk, hdrOpen, gotTime, fileAtBoot >>

\* writeCSV without f.close()
writeCSV_NoClose ==
  /\ pc = "write"
  /\ LET timestamp == getTimestamp(clockValid, [year |-> rtcYear, hour |-> rtcHour])
     IN  /\ tsUsed' = timestamp
         /\ \E opened \in BOOLEAN :
              IF opened
              THEN /\ file' = Append(file, DataLine(timestamp, airTemp, humidity,
                                                     pressure, waterTemp, waterLevel))
                   /\ fileExists' = TRUE
                   /\ handles' = handles + 1
                   /\ appOpen' = "ok"
                   /\ allOk' = allOk
              ELSE /\ appOpen' = "fail"
                   /\ allOk' = FALSE
                   /\ UNCHANGED storeVars
  /\ fileAtWrite' = file
  /\ pc' = "calc"
  /\ UNCHANGED << measVars, dashVars >>
  /\ UNCHANGED << cycle, wifi, clockValid, rtcHour, rtcYear, bmeOk, sensorVars, retries,
                  sleepSec, armed, sleepCalls, sdOk, hdrOpen, gotTime, fileAtBoot >>

\* writeCSV opening /data.csv with FILE_WRITE: the file is cut to this line
writeCSV_Truncate ==
  /\ pc = "write"
  /\ LET timestamp == getTimestamp(clockValid, [year |-> rtcYear, hour |-> rtcHour])
     IN  /\ tsUsed' = timestamp
         /\ \E opened \in BOOLEAN :
              IF opened
              THEN /\ file' = << DataLine(timestamp, airTemp, humidity,
                                          pressure, waterTemp, waterLevel) >>
                   /\ fileExists' = TRUE
                   /\ handles' = (handles + 1) - 1   \* SD.open, f.close
                   /\ appOpen' = "ok"
                   /\ allOk' = allOk
              ELSE /\ appOpen' = "fail"
                   /\ allOk' = FALSE
                   /\ UNCHANGED storeVars
  /\ fileAtWrite' = file
  /\ pc' = "calc"
  /\ UNCHANGED << measVars, dashVars >>
  /\ UNCHANGED << cycle, wifi, clockValid, rtcHour, rtcYear, bmeOk, sensorVars, retries,
                  sleepSec, armed, sleepCalls, sdOk, hdrOpen, gotTime, fileAtBoot >>

writeCSV ==
  /\ pc = "write"
  /\ LET timestamp == getTimestamp(clockValid, [year |-> rtcYear, hour |-> rtcHour])
     IN  /\ tsUsed' = timestamp
         /\ \E opened \in BOOLEAN :
              IF opened
              THEN /\ file' = Append(file, DataLine(timestamp, airTemp, humidity,
                                                     pressure, waterTemp, waterLevel))
                   /\ fileExists' = TRUE
                   /\ handles' = (handles + 1) - 1   \* SD.open, f.close
                   /\ appOpen' = "ok"
                   /\ allOk' = allOk
              ELSE /\ appOpen' = "fail"
                   /\ allOk' = FALSE
                   /\ UNCHANGED storeVars
  /\ fileAtWrite' = file
  /\ pc' = "calc"
  /\ UNCHANGED << measVars, dashVars >>
  /\ UNCHANGED << cycle, wifi, clockValid, rtcHour, rtcYear, bmeOk, sensorVars, retries,
                  sleepSec, armed, sleepCalls, sdOk, hdrOpen, gotTime, fileAtBoot >>

\* calcSleepInterval's getLocalTime succeeding or failing on its own, whatever
\* getTimestamp's did
Schedule_OwnClock ==
  /\ pc = "calc"
  /\ \E h \in { rtcHour, (rtcHour + 1) % 24 }, got \in BOOLEAN :
       /\ rtcHour' = h
       /\ sleepSec' = calcSleepInterval(got, h, airTemp, humidity)
       /\ gotTime' = IF got THEN "ok" ELSE "fail"
  /\ pc' = "sleep"
  /\ UNCHANGED << measVars, dashVars >>
  /\ UNCHANGED << cycle, wifi, clockValid, rtcYear, storeVars, bmeOk, sensorVars, retries,
                  armed, sleepCalls, sdOk, hdrOpen, appOpen, tsUsed, fileAtBoot,
                  fileAtWrite, allOk >>

\* int sleepSec = calcSleepInterval(); the clock is read again, later than in
\* writeCSV, so the hour may have moved on. Whether the RTC is valid cannot change
\* in between: the only thing that sets it is syncTime, which has returned.
Schedule ==
  /\ pc = "calc"
  /\ \E h \in { rtcHour, (rtcHour + 1) % 24 } :
       /\ rtcHour' = h
       /\ sleepSec' = calcSleepInterval(clockValid, h, airTemp, humidity)
  /\ gotTime' = IF clockValid THEN "ok" ELSE "fail"
  /\ pc' = "sleep"
  /\ UNCHANGED << measVars, dashVars >>
  /\ UNCHANGED << cycle, wifi, clockValid, rtcYear, storeVars, bmeOk, sensorVars, retries,
                  armed, sleepCalls, sdOk, hdrOpen, appOpen, tsUsed, fileAtBoot,
                  fileAtWrite, allOk >>

Sleep ==
  /\ pc = "sleep"
  /\ goToSleep(sleepSec)
  /\ UNCHANGED << measVars, dashVars >>
  /\ UNCHANGED << cycle, wifi, clockValid, rtcHour, rtcYear, storeVars, bmeOk, sensorVars,
                  retries, sleepSec, histVars >>

\* the five readings and the interval kept in RTC memory across deep sleep
Wake_Retained ==
  /\ pc = "asleep"
  /\ cycle < MaxCycles
  /\ cycle' = cycle + 1
  /\ pc' = "boot"
  /\ rtcHour' \in CycleHours
  /\ bmeOk' = FALSE
  /\ UNCHANGED << sensorVars, sleepSec >>
  /\ retries' = 0
  /\ armed' = 0
  /\ sleepCalls' = 0
  /\ sdOk' = "none" /\ hdrOpen' = "none" /\ appOpen' = "none" /\ gotTime' = "none"
  /\ tsUsed' = FallbackTimestamp
  /\ fileAtBoot' = file
  /\ fileAtWrite' = file
  /\ handles' = 0
  /\ readCount' = 0 /\ probeRaw' = F(0) /\ adcRaw' = 0
  /\ UNCHANGED dashVars
  /\ UNCHANGED << wifi, clockValid, rtcYear, fileExists, file, allOk >>

\* the wake timer fires: cold boot, RAM is lost, the RTC and the card are kept
Wake ==
  /\ pc = "asleep"
  /\ cycle < MaxCycles
  /\ cycle' = cycle + 1
  /\ pc' = "boot"
  /\ rtcHour' \in CycleHours
  /\ bmeOk' = FALSE
  /\ airTemp' = F(0) /\ humidity' = F(0) /\ pressure' = F(0)
  /\ waterTemp' = F(0) /\ waterLevel' = F(0)
  /\ retries' = 0
  /\ sleepSec' = 0
  /\ armed' = 0
  /\ sleepCalls' = 0
  /\ sdOk' = "none" /\ hdrOpen' = "none" /\ appOpen' = "none" /\ gotTime' = "none"
  /\ tsUsed' = FallbackTimestamp
  /\ fileAtBoot' = file
  /\ fileAtWrite' = file
  /\ handles' = 0
  /\ readCount' = 0 /\ probeRaw' = F(0) /\ adcRaw' = 0
  /\ UNCHANGED dashVars
  /\ UNCHANGED << wifi, clockValid, rtcYear, fileExists, file, allOk >>

Step ==
  \/ Boot \/ SDBeginFail \/ SDBeginOk \/ SyncPoll \/ SyncFinish
  \/ EnsureHeader \/ ReadSensors \/ writeCSV \/ Schedule \/ Sleep

Next == Step \/ Wake

Spec == Init /\ [][Next]_vars

\* a running setup() executes its next statement; the wake timer fires
FairSpec == Spec /\ WF_vars(Step) /\ WF_vars(Wake)

\* ------------------------------------------------- the scheduler alone
\* setup() about to call calcSleepInterval, after a first successful write, for
\* every hour of the day and readings on both sides of each threshold
SchedTemps == { F(1999), F(2000), F(2400), F(2800), F(2801), NaN }
SchedHums == { F(5000), F(8500), F(8501), F(9000), NaN }

SchedInit ==
  /\ pc = "calc"
  /\ cycle = 1
  /\ clockValid \in BOOLEAN
  /\ wifi \in { w \in BOOLEAN : clockValid => w }
  /\ rtcHour \in 0..23
  /\ rtcYear \in ClockYears
  /\ bmeOk \in BOOLEAN
  /\ airTemp \in SchedTemps
  /\ humidity \in SchedHums
  /\ pressure = F(101325)
  /\ waterTemp = F(2150)
  /\ waterLevel = adcToWaterLevel(2048)
  /\ tsUsed = getTimestamp(clockValid, [year |-> rtcYear, hour |-> rtcHour])
  /\ fileExists = TRUE
  /\ file = << HeaderLine,
               DataLine(tsUsed, airTemp, humidity, pressure, waterTemp, waterLevel) >>
  /\ retries = 0
  /\ sleepSec = 0
  /\ armed = 0
  /\ sleepCalls = 0
  /\ sdOk = "ok" /\ hdrOpen = "ok" /\ appOpen = "ok" /\ gotTime = "none"
  /\ fileAtBoot = << >>
  /\ fileAtWrite = << HeaderLine >>
  /\ allOk = TRUE
  /\ handles = 0
  /\ readCount = 1 /\ probeRaw = F(2150) /\ adcRaw = 2048
  /\ DashIdle

SchedNext == Schedule \/ Sleep

SchedSpec == SchedInit /\ [][SchedNext]_vars

\* -------------------------------------------- measurement and record alone
\* setup() about to call readSensors in a first cycle whose header was written,
\* for every ADC count and readings with every kind of second decimal
MeasBme ==
  { [t |-> F(2345), h |-> F(6555), p |-> F(10132500)],
    [t |-> F(-550), h |-> F(10000), p |-> F(9876543)],
    [t |-> F(2400), h |-> F(9000), p |-> F(10000000)],
    [t |-> NaN,     h |-> NaN,     p |-> NaN] }
MeasProbe == { F(DEVICE_DISCONNECTED_C), F(-12699), F(-5), F(2150), F(2156) }

MeasInit ==
  /\ pc = "read"
  /\ cycle = 1
  /\ wifi = TRUE
  /\ clockValid \in BOOLEAN
  /\ rtcHour = 14
  /\ rtcYear \in ClockYears
  /\ bmeOk \in BOOLEAN
  /\ airTemp = F(0) /\ humidity = F(0) /\ pressure = F(0)
  /\ waterTemp = F(0) /\ waterLevel = F(0)
  /\ fileExists = TRUE
  /\ file = << HeaderLine >>
  /\ handles = 0
  /\ retries = 0
  /\ sleepSec = 0
  /\ armed = 0
  /\ sleepCalls = 0
  /\ sdOk = "ok" /\ hdrOpen = "ok" /\ appOpen = "none" /\ gotTime = "none"
  /\ tsUsed = FallbackTimestamp
  /\ fileAtBoot = << >>
  /\ fileAtWrite = << >>
  /\ allOk = TRUE
  /\ readCount = 0 /\ probeRaw = F(0) /\ adcRaw = 0
  /\ DashIdle

MeasRead == ReadSensorsFrom(MeasBme, MeasProbe, 0..ADC_MAX)

MeasNext == MeasRead \/ writeCSV

MeasSpec == MeasInit /\ [][MeasNext]_vars

\* ------------------------------------------------------------ the dashboard
\* a threshold of the STAGES table: a number (hundredths) or null / undefined
Some(x) == [null |-> FALSE, v |-> x]
Null == [null |-> TRUE, v |-> 0]
FLt(a, c) == ~a.nan /\ a.v < c

\* STAGES, with DVI bounds s and e in hundredths; warnMsg says whether the stage's
\* waterLevel has a warnMsg; the names stand for the Japanese stage names
STAGES ==
  << [name |-> "ikubyo", s |-> 0, e |-> 15,
      waterLevel |-> [min |-> Some(300), max |-> Some(500), alertBelow |-> Null,
                      warnMsg |-> FALSE],
      waterTemp |-> [warnLow |-> Some(1500), warnHigh |-> Some(3000),
                     critLow |-> Some(1200), critHigh |-> Some(3500)],
      airTemp |-> [warnHigh |-> Some(3300), critHigh |-> Some(3500)]],
     [name |-> "bunketsu", s |-> 15, e |-> 45,
      waterLevel |-> [min |-> Some(200), max |-> Some(300), alertBelow |-> Null,
                      warnMsg |-> FALSE],
      waterTemp |-> [warnLow |-> Some(1700), warnHigh |-> Some(2800),
                     critLow |-> Some(1400), critHigh |-> Some(3300)],
      airTemp |-> [warnHigh |-> Some(3300), critHigh |-> Some(3500)]],
     [name |-> "nakaboshi", s |-> 45, e |-> 55,
      waterLevel |-> [min |-> Some(0), max |-> Some(0), alertBelow |-> Null,
                      warnMsg |-> FALSE],
      waterTemp |-> [warnLow |-> Null, warnHigh |-> Null,
                     critLow |-> Null, critHigh |-> Null],
      airTemp |-> [warnHigh |-> Some(3500), critHigh |-> Some(3800)]],
     [name |-> "shussui", s |-> 55, e |-> 75,
      waterLevel |-> [min |-> Some(0), max |-> Some(500), alertBelow |-> Some(0),
                      warnMsg |-> TRUE],
      waterTemp |-> [warnLow |-> Some(1700), warnHigh |-> Some(2800),
                     critLow |-> Some(1500), critHigh |-> Some(3000)],
      airTemp |-> [warnHigh |-> Some(3000), critHigh |-> Some(3500)]],
     [name |-> "tojuku", s |-> 75, e |-> 95,
      waterLevel |-> [min |-> Some(0), max |-> Some(300), alertBelow |-> Some(0),
                      warnMsg |-> TRUE],
      waterTemp |-> [warnLow |-> Null, warnHigh |-> Some(2600),
                     critLow |-> Null, critHigh |-> Some(3000)],
      airTemp |-> [warnHigh |-> Some(2700), critHigh |-> Some(3500)]],
     [name |-> "shukaku", s |-> 95, e |-> 100,
      waterLevel |-> [min |-> Some(0), max |-> Some(0), alertBelow |-> Null,
                      warnMsg |-> FALSE],
      waterTemp |-> [warnLow |-> Null, warnHigh |-> Null,
                     critLow |-> Null, critHigh |-> Null],
      airTemp |-> [warnHigh |-> Null, critHigh |-> Null]] >>

\* the lookup with the stage's end included: currentDVI <= s.e
StageIndex_InclusiveEnd(dvi) ==
  LET hits == { i \in 1..Len(STAGES) : dvi >= STAGES[i].s /\ dvi <= STAGES[i].e }
  IN  IF hits = {} THEN 4 ELSE CHOOSE i \in hits : \A j \in hits : i <= j

\* STAGES.find(s => currentDVI >= s.s && currentDVI < s.e) || STAGES[3]
StageIndex(dvi) ==
  LET hits == { i \in 1..Len(STAGES) : dvi >= STAGES[i].s /\ dvi < STAGES[i].e }
  IN  IF hits = {} THEN 4 ELSE CHOOSE i \in hits : \A j \in hits : i <= j

\* the status of a ThresholdMetric card
ThresholdMetric(value, stage, sensorKey) ==
  IF sensorKey = "airTemp" THEN
    LET t == stage.airTemp
    IN  IF ~t.critHigh.null /\ FGe(value, t.critHigh.v) THEN "bad"
        ELSE IF ~t.warnHigh.null /\ FGe(value, t.warnHigh.v) THEN "warn"
        ELSE "good"
  ELSE IF sensorKey = "waterTemp" THEN
    LET t == stage.waterTemp
    IN  IF (~t.critLow.null /\ FLe(value, t.critLow.v))
           \/ (~t.critHigh.null /\ FGe(value, t.critHigh.v)) THEN "bad"
        ELSE IF (~t.warnLow.null /\ FLe(value, t.warnLow.v))
                \/ (~t.warnHigh.null /\ FGe(value, t.warnHigh.v)) THEN "warn"
        ELSE "good"
  ELSE IF sensorKey = "waterLevel" THEN
    LET w == stage.waterLevel
    IN  IF ~w.alertBelow.null /\ FLe(value, w.alertBelow.v) THEN "bad"
        ELSE IF ~w.min.null /\ FLt(value, w.min.v)
                /\ stage.name # "nakaboshi" /\ stage.name # "shukaku" THEN "warn"
        ELSE IF ~w.max.null /\ FGt(value, w.max.v + 300) THEN "warn"
        ELSE "good"
  ELSE "good"

\* the alerts of the "dynamic threshold alerts" block, in the order pushed
ThresholdAlerts(stage, l) ==
  LET wl == stage.waterLevel
      wt == stage.waterTemp
      at == stage.airTemp
      A(sensor, side, level) == << [sensor |-> sensor, side |-> side, level |-> level] >>
      level ==
        IF ~wl.alertBelow.null /\ FLe(l.waterLevel, wl.alertBelow.v) /\ wl.warnMsg
        THEN A("waterLevel", "low", "crit")
        ELSE IF ~wl.min.null /\ FLt(l.waterLevel, wl.min.v) /\ stage.name # "nakaboshi"
        THEN A("waterLevel", "low", "warn")
        ELSE IF ~wl.max.null /\ FGt(l.waterLevel, wl.max.v + 300)
        THEN A("waterLevel", "high", "warn")
        ELSE << >>
      low ==
        IF ~wt.critLow.null /\ FLe(l.waterTemp, wt.critLow.v)
        THEN A("waterTemp", "low", "crit")
        ELSE IF ~wt.warnLow.null /\ FLe(l.waterTemp, wt.warnLow.v)
        THEN A("waterTemp", "low", "warn")
        ELSE << >>
      high ==
        IF ~wt.critHigh.null /\ FGe(l.waterTemp, wt.critHigh.v)
        THEN A("waterTemp", "high", "crit")
        ELSE IF ~wt.warnHigh.null /\ FGe(l.waterTemp, wt.warnHigh.v)
        THEN A("waterTemp", "high", "warn")
        ELSE << >>
      air ==
        IF ~at.critHigh.null /\ FGe(l.airTemp, at.critHigh.v)
        THEN A("airTemp", "high", "crit")
        ELSE IF ~at.warnHigh.null /\ FGe(l.airTemp, at.warnHigh.v)
        THEN A("airTemp", "high", "warn")
        ELSE << >>
  IN  level \o low \o high \o air

\* DVI values on both sides of every stage bound, and some no stage matches
DashDVIs == { -5, 0, 10, 15, 30, 45, 50, 55, 62, 75, 80, 95, 99, 100, 120 }
\* values a record can carry: numbers, the -999 sentinel, a non-numeric field
DashAirTemps == { NaN, F(2500), F(3000), F(3300), F(3500), F(3800) }
DashWaterTemps ==
  { F(WaterTempError), NaN, F(1200), F(1500), F(1700), F(2200), F(2800), F(3000),
    F(3500) }
DashWaterLevels == { NaN, F(-50), F(0), F(100), F(250), F(400), F(600), F(900) }

\* the sensor unit plays no part in the dashboard's behaviour
DashInit ==
  /\ UnitInit /\ wifi = FALSE /\ rtcHour = 14
  /\ currentDVI \in DashDVIs
  /\ currentStage = 4
  /\ latest \in [airTemp : DashAirTemps, waterTemp : DashWaterTemps,
                  waterLevel : DashWaterLevels]
  /\ cards = [airTemp |-> "none", waterTemp |-> "none", waterLevel |-> "none"]
  /\ alerts = << >>
  /\ rendered = FALSE
  /\ UiIdle

\* DashboardPage renders: stage lookup, the three cards, the alert list
Render ==
  /\ ~rendered
  /\ rendered' = TRUE
  /\ currentStage' = StageIndex(currentDVI)
  /\ LET stage == STAGES[StageIndex(currentDVI)]
     IN  /\ cards' = [airTemp |-> ThresholdMetric(latest.airTemp, stage, "airTemp"),
                      waterTemp |-> ThresholdMetric(latest.waterTemp, stage, "waterTemp"),
                      waterLevel |-> ThresholdMetric(latest.waterLevel, stage, "waterLevel")]
         /\ alerts' = ThresholdAlerts(stage, latest)
  /\ UNCHANGED << currentDVI, latest, uiVars >>
  /\ UNCHANGED << pc, cycle, wifi, clockValid, rtcHour, rtcYear, storeVars, bmeOk,
                  sensorVars, retries, sleepSec, armed, sleepCalls, histVars, measVars >>

DashNext == Render

DashSpec == DashInit /\ [][DashNext]_vars

\* --------------------------------------------- the dashboard's spray log
MaxDay == 1
HandledDays == 14
Diseases == { "blast", "sheath" }
\* PESTICIDES, by name; category and timing travel with the name
PESTICIDES ==
  [blast |-> { "tricyclazole", "isotianil", "kasugamycin", "ferimzone-fthalide" },
   sheath |-> { "validamycin", "thifluzamide", "pencycuron" }]
Pages == { "dashboard", "input", "analytics", "gap" }
\* what a user types into the amount and area fields
Amounts == { "", "3kg/10a" }
Areas == { "", "30a" }
\* the mean of the panicle lengths typed in, in tenths; null when none is typed
PanicleMeans == { Null, Some(225) }
\* the mean tiller count of DataInputPage's form, in tenths; null when none is typed
TillerMeans == { Null, Some(180) }

unitVars == << pc, cycle, wifi, clockValid, rtcHour, rtcYear, storeVars, bmeOk,
               sensorVars, retries, sleepSec, armed, sleepCalls, histVars, measVars >>

daysSince(date) == today - date
\* blastHandled, sheathHandled
Handled(disease) ==
  \E i \in 1..Len(sprayLogs) :
    sprayLogs[i].disease = disease /\ daysSince(sprayLogs[i].date) < HandledDays

\* the "record a spray" / "close" button, drawn for every disease
ToggleSpray_Always(d) ==
  /\ page = "dashboard"
  /\ sprayOpen' = IF sprayOpen = d THEN "none" ELSE d
  /\ selectedPesticide' = "none"
  /\ lastHandler' = "toggle"
  /\ UNCHANGED << page, corrections, sprayLogs, sprayAmount, sprayArea, today >>
  /\ UNCHANGED << unitVars, stageVars >>

\* the "record a spray" / "close" button of a disease, drawn when not handled
ToggleSpray(d) ==
  /\ page = "dashboard"
  /\ ~Handled(d)
  /\ sprayOpen' = IF sprayOpen = d THEN "none" ELSE d
  /\ selectedPesticide' = "none"
  /\ lastHandler' = "toggle"
  /\ UNCHANGED << page, corrections, sprayLogs, sprayAmount, sprayArea, today >>
  /\ UNCHANGED << unitVars, stageVars >>

\* a click on one of the open panel's pesticides
SelectPesticide ==
  /\ page = "dashboard"
  /\ sprayOpen \in Diseases
  /\ \E p \in PESTICIDES[sprayOpen] : selectedPesticide' = p
  /\ lastHandler' = "select"
  /\ UNCHANGED << page, corrections, sprayLogs, sprayOpen, sprayAmount, sprayArea, today >>
  /\ UNCHANGED << unitVars, stageVars >>

\* typing in the open panel's amount field
EditAmount ==
  /\ page = "dashboard"
  /\ sprayOpen \in Diseases
  /\ \E v \in Amounts : sprayAmount' = v
  /\ lastHandler' = "amount"
  /\ UNCHANGED << page, corrections, sprayLogs, sprayOpen, selectedPesticide, sprayArea,
                  today >>
  /\ UNCHANGED << unitVars, stageVars >>

\* typing in the open panel's area field
EditArea ==
  /\ page = "dashboard"
  /\ sprayOpen \in Diseases
  /\ \E v \in Areas : sprayArea' = v
  /\ lastHandler' = "area"
  /\ UNCHANGED << page, corrections, sprayLogs, sprayOpen, selectedPesticide, sprayAmount,
                  today >>
  /\ UNCHANGED << unitVars, stageVars >>

SprayLog(disease) ==
  [date |-> today, disease |-> disease, pesticide |-> selectedPesticide,
   amount |-> IF sprayAmount = "" THEN "-" ELSE sprayAmount,
   area |-> IF sprayArea = "" THEN "-" ELSE sprayArea]

\* handleSprayRecord leaving the amount and area fields as typed
handleSprayRecord_KeepForm(disease) ==
  /\ lastHandler' = "record"
  /\ IF selectedPesticide = "none"
     THEN UNCHANGED << sprayLogs, formVars >>
     ELSE /\ sprayLogs' = << SprayLog(disease) >> \o sprayLogs
          /\ sprayOpen' = "none"
          /\ selectedPesticide' = "none"
          /\ UNCHANGED << sprayAmount, sprayArea >>
  /\ UNCHANGED << page, corrections, today >>
  /\ UNCHANGED << unitVars, stageVars >>

handleSprayRecord(disease) ==
  /\ lastHandler' = "record"
  /\ IF selectedPesticide = "none"
     THEN UNCHANGED << sprayLogs, formVars >>
     ELSE /\ sprayLogs' = << SprayLog(disease) >> \o sprayLogs
          /\ sprayOpen' = "none"
          /\ selectedPesticide' = "none"
          /\ sprayAmount' = ""
          /\ sprayArea' = ""
  /\ UNCHANGED << page, corrections, today >>
  /\ UNCHANGED << unitVars, stageVars >>

\* the open panel's record button
RecordSpray ==
  /\ page = "dashboard"
  /\ sprayOpen \in Diseases
  /\ handleSprayRecord(sprayOpen)

\* the dashboard's panicle-length save
handlePanicleSave ==
  /\ page = "dashboard"
  /\ \E pAvg \in PanicleMeans :
       corrections' = IF pAvg.null THEN corrections
                      ELSE [corrections EXCEPT !.panicleLength = pAvg,
                                               !.date = Some(today)]
  /\ lastHandler' = "panicle"
  /\ UNCHANGED << page, sprayLogs, formVars, today >>
  /\ UNCHANGED << unitVars, stageVars >>

\* DataInputPage's save
handleSave ==
  /\ page = "input"
  /\ \E t \in TillerMeans :
       corrections' = [corrections EXCEPT
                         !.tillerCount = IF t.null THEN @ ELSE t,
                         !.date = Some(today)]
  /\ lastHandler' = "save"
  /\ UNCHANGED << page, sprayLogs, formVars, today >>
  /\ UNCHANGED << unitVars, stageVars >>

\* a click in the bottom navigation; a DashboardPage that is unmounted loses
\* its state, one that is mounted starts from useState's initial values
setPage ==
  /\ \E p \in Pages :
       /\ page' = p
       /\ IF p = "dashboard" /\ page = "dashboard"
          THEN UNCHANGED formVars
          ELSE /\ sprayOpen' = "none"
               /\ selectedPesticide' = "none"
               /\ sprayAmount' = ""
               /\ sprayArea' = ""
  /\ lastHandler' = "page"
  /\ UNCHANGED << corrections, sprayLogs, today >>
  /\ UNCHANGED << unitVars, stageVars >>

\* midnight (UTC) passes
NextDay ==
  /\ today < MaxDay
  /\ today' = today + 1
  /\ UNCHANGED << page, corrections, sprayLogs, formVars, lastHandler >>
  /\ UNCHANGED << unitVars, stageVars >>

UiInit == UnitInit /\ wifi = FALSE /\ rtcHour = 14 /\ DashIdle

UiNext ==
  \/ \E d \in Diseases : ToggleSpray(d)
  \/ SelectPesticide \/ EditAmount \/ EditArea \/ RecordSpray
  \/ handlePanicleSave \/ handleSave \/ setPage \/ NextDay

UiSpec == UiInit /\ [][UiNext]_vars

\* ------------------------------------------------------------------ claims
\* the hour calcSleepInterval decided on, once it has run in this cycle
HourUsed == IF gotTime = "ok" THEN rtcHour ELSE 12
Scheduled == pc \in { "sleep", "asleep" } /\ gotTime # "none"
InNightWindow(h) == (h >= 22 /\ h < 24) \/ (h >= 0 /\ h < 5)
RiskReading ==
  /\ ~airTemp.nan /\ airTemp.v >= 2000 /\ airTemp.v <= 2800
  /\ ~humidity.nan /\ humidity.v > 8500

\* C1: every cycle that boots goes on to deep sleep with the wake timer armed,
\* whatever fails on the way (BME280, DS18B20, SD.begin, either open, the clock,
\* the Wi-Fi / NTP sync).
C1_EveryCycleSleeps ==
  [](pc = "boot" => <>(pc = "asleep" /\ armed > 0 /\ sleepCalls = 1))

C1_Witness ==
  /\ pc = "asleep" /\ armed > 0
  /\ wifi /\ ~clockValid /\ ~bmeOk
  /\ sdOk = "ok" /\ hdrOpen = "fail" /\ appOpen = "fail" /\ gotTime = "fail"
  /\ FEq(waterTemp, -99900)

\* C2: goToSleep is called at most once per cycle, and the interval it arms is
\* one of 600, 1800, 3600, never zero or negative.
C2_PositiveInterval ==
  /\ sleepCalls <= 1
  /\ (sleepCalls = 1 \/ pc = "asleep") =>
       (pc = "asleep" /\ sleepCalls = 1 /\ armed \in { 600, 1800, 3600 } /\ armed > 0)

C2_Witness ==
  pc = "asleep" /\ sleepCalls = 1 /\ armed = 600 /\ appOpen = "ok"

C4_NightPrecedence ==
  (Scheduled /\ gotTime = "ok" /\ InNightWindow(rtcHour)) =>
    (sleepSec = 3600 /\ (pc = "asleep" => armed = 3600))

C4_Witness ==
  /\ pc = "asleep" /\ gotTime = "ok" /\ rtcHour = 3
  /\ airTemp = F(2400) /\ humidity = F(9000) /\ armed = 3600

\* C5: for every hour in [5,22), calcSleepInterval returns 600 exactly when
\* airTemp is in [20.0, 28.0] and humidity is above 85.0, and 1800 otherwise.
C5_RiskIff ==
  (Scheduled /\ gotTime = "ok" /\ rtcHour >= 5 /\ rtcHour < 22) =>
    /\ sleepSec = 600 <=> RiskReading
    /\ sleepSec # 600 => sleepSec = 1800

C5_Witness ==
  /\ pc = "sleep" /\ gotTime = "ok" /\ rtcHour = 14
  /\ airTemp = F(2800) /\ humidity = F(8501) /\ sleepSec = 600

\* C6: at a non-night hour a NaN airTemp or a NaN humidity gives 1800, never 600.
C6_NaNIsNormal ==
  (Scheduled /\ ~InNightWindow(HourUsed) /\ (airTemp.nan \/ humidity.nan)) =>
    sleepSec = 1800

C6_Witness ==
  /\ pc = "sleep" /\ gotTime = "ok" /\ rtcHour = 14
  /\ airTemp.nan /\ humidity = F(9000) /\ sleepSec = 1800

\* C7: a cycle in which getLocalTime fails schedules with hour 12 and never
\* sleeps 3600: it sleeps 600 at a high-risk reading and 1800 otherwise.
C7_NoClockNoNight ==
  /\ (pc = "asleep" /\ ~clockValid) => armed # 3600
  /\ (pc = "asleep" /\ gotTime = "fail") =>
       armed = IF RiskReading THEN 600 ELSE 1800

C7_Witness ==
  pc = "asleep" /\ gotTime = "fail" /\ rtcHour = 3 /\ RiskReading /\ armed = 600

C9_OneHeaderNData ==
  (pc = "asleep" /\ allOk) =>
    /\ Len(file) = 1 + cycle
    /\ file[1] = HeaderLine
    /\ \A i \in 2..Len(file) : file[i].kind = "data"

C9_Witness ==
  pc = "asleep" /\ allOk /\ cycle = 2 /\ Len(file) = 3 /\ hdrOpen = "none"

\* C10 as stated: after any sequence of cycles, with the header open and the
\* append open failing independently, a file that holds a data line begins with
\* the header line and holds no other header line.
C10_Original ==
  (\E i \in 1..Len(file) : file[i].kind = "data") =>
    /\ file[1] = HeaderLine
    /\ \A i \in 2..Len(file) : file[i].kind # "header"

\* C11: the header step run on a store where /data.csv exists leaves the store
\* as it is, and the file, once there, stays: every header step after the first
\* successful one changes nothing.
C11_HeaderIdempotent ==
  [][ /\ (pc = "header" /\ fileExists) => (file' = file /\ fileExists')
      /\ fileExists => fileExists' ]_vars

C11_Witness ==
  /\ pc = "read" /\ cycle = 2 /\ sdOk = "ok" /\ hdrOpen = "none"
  /\ file = fileAtBoot /\ Len(file) = 2 /\ file[1] = HeaderLine

\* C12: no File object is open on /data.csv once the header step or writeCSV has
\* returned, nor when goToSleep is called and the device sleeps.
C12_NoOpenHandle ==
  pc \in { "read", "write", "calc", "sleep", "asleep" } => handles = 0

C12_Witness ==
  pc = "asleep" /\ hdrOpen = "ok" /\ appOpen = "ok" /\ handles = 0 /\ Len(file) = 2

\* C13 as stated: on every path from boot to goToSleep, the path where SD.begin
\* fails included, readSensors has run exactly once when the device sleeps.
C13_Original ==
  pc = "asleep" => readCount = 1

\* C13 amended: readSensors never runs twice in a cycle; a cycle in which
\* SD.begin succeeds sleeps after exactly one run, a cycle in which SD.begin
\* fails sleeps without any.
C13_OneReadingUnlessNoCard ==
  /\ readCount <= 1
  /\ pc = "asleep" => readCount = (IF sdOk = "ok" THEN 1 ELSE 0)

C13_Witness ==
  pc = "asleep" /\ sdOk = "ok" /\ hdrOpen = "fail" /\ appOpen = "fail" /\ readCount = 1

ColumnIndex(col) == CHOOSE i \in 1..Len(HeaderColumns) : HeaderColumns[i] = col
ParseField(line, col) == (<< line.ts >> \o line.vals)[ColumnIndex(col)]
\* a parsed one-decimal field p (tenths) is value x (hundredths) to one decimal
ToOneDecimal(p, x) ==
  IF x.nan THEN p.nan
  ELSE ~p.nan /\ 10 * p.v - x.v <= 5 /\ x.v - 10 * p.v <= 5
LastLine == file[Len(file)]
Written == pc \in { "calc", "sleep", "asleep" } /\ appOpen = "ok"

\* C15: a probe that reports DEVICE_DISCONNECTED_C (-127) gives waterTemp -999
\* in the reading and -999.0 in the written line; any other probe value is
\* kept as it is, and printed to one decimal.
C15_WaterTempSentinel ==
  /\ readCount = 1 =>
       waterTemp = (IF probeRaw = F(-12700) THEN F(-99900) ELSE probeRaw)
  /\ Written =>
       IF probeRaw = F(-12700)
       THEN ParseField(LastLine, "water_temp") = F(-9990)
       ELSE ToOneDecimal(ParseField(LastLine, "water_temp"), probeRaw)

C15_Witness ==
  /\ Written /\ probeRaw = F(-12700) /\ waterTemp = F(-99900)
  /\ LastLine.vals[4] = F(-9990)

\* C16 as stated: after a failed bme.begin the reading's airTemp, humidity and
\* pressure are all NaN, and waterTemp and waterLevel are measured.
C16_Original ==
  (readCount = 1 /\ ~bmeOk) =>
    /\ airTemp.nan /\ humidity.nan /\ pressure.nan
    /\ waterTemp = (IF probeRaw = F(-12700) THEN F(-99900) ELSE probeRaw)
    /\ ~waterLevel.nan

\* C17: for every rawAdc in 0..4095 the level is a number from 0 to 20 cm.
C17_LevelInRange ==
  readCount = 1 =>
    (~waterLevel.nan /\ waterLevel.v >= 0 /\ waterLevel.v <= 2000)

C17_Witness ==
  readCount = 1 /\ adcRaw = 0 /\ waterLevel = F(0)

\* C18: the line writeCSV wrote, read back as six fields in the header's column
\* order, gives the timestamp and each value to one decimal place.
C18_RoundTrip ==
  Written =>
    /\ Len(LastLine.vals) + 1 = Len(HeaderColumns)
    /\ ParseField(LastLine, "timestamp") = tsUsed
    /\ ToOneDecimal(ParseField(LastLine, "air_temp"), airTemp)
    /\ ToOneDecimal(ParseField(LastLine, "humidity"), humidity)
    /\ ToOneDecimal(ParseField(LastLine, "pressure"), pressure)
    /\ ToOneDecimal(ParseField(LastLine, "water_temp"), waterTemp)
    /\ ToOneDecimal(ParseField(LastLine, "water_level"), waterLevel)

C18_Witness ==
  /\ Written /\ airTemp = F(2345) /\ waterTemp = F(2156) /\ adcRaw = 2048
  /\ ParseField(LastLine, "water_temp") = F(216)
  /\ ParseField(LastLine, "pressure") = F(10132)

\* C19 as stated: for every growth stage a waterTemp of -999 or an airTemp of
\* NaN gives neither a warn / bad card nor a low- or high-temperature alert.
C19_Original ==
  rendered =>
    /\ latest.waterTemp = F(-99900) =>
         /\ cards.waterTemp = "good"
         /\ \A i \in 1..Len(alerts) : alerts[i].sensor # "waterTemp"
    /\ latest.airTemp.nan =>
         /\ cards.airTemp = "good"
         /\ \A i \in 1..Len(alerts) : alerts[i].sensor # "airTemp"

\* C20: the Wi-Fi wait loop of syncTime polls at most 20 times, connected or
\* not, and whatever the outcome of the sync (connected and synced, connected
\* and no time, never connected) the cycle goes on: the sensors are read once,
\* the append and the timestamp are attempted, the interval is computed and
\* the unit reaches deep sleep with the timer armed.
C20_SyncBounded ==
  /\ [](retries <= MaxRetries)
  /\ [](pc \in { "sync", "synced" } =>
          <>(/\ pc = "asleep"
             /\ readCount = 1
             /\ appOpen # "none"
             /\ gotTime # "none"
             /\ sleepSec \in { 600, 1800, 3600 }
             /\ armed = sleepSec))

\* the loop has used all 20 polls without a connection
C20_Witness ==
  pc = "synced" /\ retries = MaxRetries /\ wifi

\* getTimestamp is the first statement of writeCSV: the record's time has been
\* resolved in this cycle exactly when writeCSV has run
TimestampResolved == appOpen # "none"
SensorsRead == readCount >= 1
IntervalComputed == gotTime # "none"

\* C21 as stated: the time used for the record is resolved before the sensors
\* are read, the sensors are read before the record is appended, the record is
\* appended before the interval is computed, and goToSleep comes last.
C21_Original ==
  /\ [][readCount' # readCount /\ readCount' >= 1 => TimestampResolved]_vars
  /\ [][appOpen' # appOpen /\ appOpen' # "none" => SensorsRead]_vars
  /\ [][gotTime' # gotTime /\ gotTime' # "none" => TimestampResolved]_vars
  /\ [][pc = "asleep" => pc' = "boot"]_vars

\* C21, amended: within every cycle the network time sync (when built in) ends
\* before the sensors are read and is the only step that sets the clock; the
\* sensors are read before writeCSV resolves the record's timestamp and
\* appends; writeCSV has run before the interval is computed; goToSleep is
\* called once, after the interval is computed (or after SD.begin failed), and
\* nothing of the cycle follows it.
C21_StepOrder ==
  /\ [][(pc \in { "sync", "synced" }) => (~SensorsRead /\ (readCount' = readCount))]_vars
  /\ [][clockValid' # clockValid => (pc = "synced" /\ ~SensorsRead)]_vars
  /\ [][readCount' # readCount /\ readCount' >= 1 =>
          /\ (wifi => pc \notin { "sdbegin", "sync", "synced" })
          /\ ~TimestampResolved /\ ~IntervalComputed /\ sleepCalls = 0]_vars
  /\ [][appOpen' # appOpen /\ appOpen' # "none" =>
          SensorsRead /\ ~IntervalComputed /\ sleepCalls = 0]_vars
  /\ [][gotTime' # gotTime /\ gotTime' # "none" =>
          SensorsRead /\ TimestampResolved /\ sleepCalls = 0]_vars
  /\ [][sleepCalls' = sleepCalls + 1 =>
          /\ sleepCalls = 0
          /\ pc' = "asleep"
          /\ (IntervalComputed \/ sdOk' = "fail")]_vars
  /\ [][pc = "asleep" => pc' = "boot"]_vars

\* a cycle with time sync that went through every step and is asleep
C21_Witness ==
  /\ pc = "asleep" /\ wifi /\ clockValid
  /\ SensorsRead /\ appOpen = "ok" /\ IntervalComputed /\ sleepCalls = 1

\* C22: nothing in RAM links cycles. Every cycle boots with the five readings
\* at their initial value 0; the data line appended is a function of what this
\* cycle's clock, BME280, probe and ADC gave; the interval is a function of the
\* hour, air temperature and humidity of this cycle; the timer is armed with
\* that interval, or with 1800 when SD.begin failed. None of them depends on
\* the cycle number, on the file's earlier lines or on an earlier cycle's
\* values, so two runs that agree on the current cycle's inputs agree on both.
C22_NoCarryOver ==
  /\ [](pc = "boot" =>
          /\ airTemp = F(0) /\ humidity = F(0) /\ pressure = F(0)
          /\ waterTemp = F(0) /\ waterLevel = F(0)
          /\ sleepSec = 0 /\ readCount = 0)
  /\ [][appOpen = "none" /\ appOpen' = "ok" =>
          /\ readCount = 1
          /\ file' = Append(file,
               DataLine(getTimestamp(clockValid, [year |-> rtcYear, hour |-> rtcHour]),
                        airTemp, humidity, pressure,
                        IF FEq(probeRaw, DEVICE_DISCONNECTED_C)
                        THEN F(WaterTempError) ELSE probeRaw,
                        adcToWaterLevel(adcRaw)))]_vars
  /\ [][appOpen = "none" /\ appOpen' = "fail" => file' = file]_vars
  /\ [][gotTime = "none" /\ gotTime' # "none" =>
          /\ readCount = 1
          /\ sleepSec' = calcSleepInterval(clockValid, rtcHour', airTemp, humidity)]_vars
  /\ [][sleepCalls' = sleepCalls + 1 =>
          armed' = (IF sdOk' = "fail" THEN INTERVAL_NORMAL ELSE sleepSec)]_vars

\* a second cycle has appended its line after a first cycle that appended a
\* different one
C22_Witness ==
  /\ cycle = 2 /\ pc = "asleep" /\ appOpen = "ok" /\ Len(file) >= 3
  /\ file[Len(file) - 1].kind = "data"
  /\ file[Len(file) - 1] # file[Len(file)]

\* the lines a cycle has added to what /data.csv held when it began
IsPrefix(a, b) == Len(a) <= Len(b) /\ \A i \in 1..Len(a) : b[i] = a[i]
AddedThisCycle == SubSeq(file, Len(fileAtBoot) + 1, Len(file))

\* C23: /data.csv is append-only. No step, in a cycle or across deep sleep,
\* changes, removes or truncates a line the file already holds, and at every
\* point of a cycle the file is what it held at the start of the cycle followed
\* by at most one header line and then at most one data line.
C23_AppendOnly ==
  /\ [][IsPrefix(file, file')]_vars
  /\ [](/\ IsPrefix(fileAtBoot, file)
        /\ Len(AddedThisCycle) <= 2
        /\ Cardinality({ i \in 1..Len(AddedThisCycle) : AddedThisCycle[i].kind = "header" }) <= 1
        /\ Cardinality({ i \in 1..Len(AddedThisCycle) : AddedThisCycle[i].kind = "data" }) <= 1
        /\ Len(AddedThisCycle) = 2 =>
             AddedThisCycle[1].kind = "header" /\ AddedThisCycle[2].kind = "data")

\* the second cycle has added its line to the header and line of the first
C23_Witness ==
  /\ cycle = 2 /\ pc = "asleep"
  /\ Len(fileAtBoot) = 2 /\ Len(file) = 3
  /\ fileAtBoot[1].kind = "header"

AlertsFor(sensor, level) ==
  { i \in 1..Len(alerts) : alerts[i].sensor = sensor /\ alerts[i].level = level }
Agree(sensor) ==
  /\ cards[sensor] = "bad" <=> AlertsFor(sensor, "crit") # {}
  /\ cards[sensor] = "warn" <=>
       (AlertsFor(sensor, "crit") = {} /\ AlertsFor(sensor, "warn") # {})
  /\ cards[sensor] = "good" <=>
       (AlertsFor(sensor, "crit") = {} /\ AlertsFor(sensor, "warn") = {})

Matching(dvi) == { i \in 1..Len(STAGES) : dvi >= STAGES[i].s /\ dvi < STAGES[i].e }

\* C29: the stages tile [0, 1): the first starts at 0, each ends where the
\* next starts, the last ends at 1; a DVI in [0, 1) matches exactly one stage
\* and the lookup gives it; a DVI outside matches none and the lookup gives
\* the fourth stage, STAGES[3].
C29_StagesPartition ==
  /\ STAGES[1].s = 0 /\ STAGES[Len(STAGES)].e = 100
  /\ \A i \in 1..(Len(STAGES) - 1) : STAGES[i].e = STAGES[i + 1].s
  /\ \A i \in 1..Len(STAGES) : STAGES[i].s < STAGES[i].e
  /\ rendered =>
       IF currentDVI >= 0 /\ currentDVI < 100
       THEN Cardinality(Matching(currentDVI)) = 1 /\ currentStage \in Matching(currentDVI)
       ELSE Matching(currentDVI) = {} /\ currentStage = 4

\* a DVI of exactly 1.0 rendered with the fallback stage
C29_Witness ==
  rendered /\ currentDVI = 100 /\ currentStage = 4

\* the records of a disease
RecordsOf(logs, d) == { i \in 1..Len(logs) : logs[i].disease = d }

\* C26: whatever the user does (open or close a panel, pick a pesticide, type
\* an amount or area, record, change page), sprayLogs never holds two records
\* of one disease dated less than 14 days apart, so at most one per disease on
\* a date; a disease with a record is shown as handled, its panel is closed,
\* and no step adds a record for a disease that is handled.
C26_OneRecordPerDisease ==
  /\ [](\A i, j \in 1..Len(sprayLogs) :
          (i # j /\ sprayLogs[i].disease = sprayLogs[j].disease) =>
            \/ sprayLogs[i].date - sprayLogs[j].date >= HandledDays
            \/ sprayLogs[j].date - sprayLogs[i].date >= HandledDays)
  /\ [](\A d \in Diseases :
          (today < HandledDays /\ RecordsOf(sprayLogs, d) # {}) =>
            (Handled(d) /\ sprayOpen # d))
  /\ [][\A d \in Diseases :
          Handled(d) => Cardinality(RecordsOf(sprayLogs', d))
                          = Cardinality(RecordsOf(sprayLogs, d))]_vars

\* both diseases have been recorded, sheath first
C26_Witness ==
  /\ Len(sprayLogs) = 2
  /\ sprayLogs[1].disease = "blast" /\ sprayLogs[2].disease = "sheath"
  /\ Handled("blast") /\ Handled("sheath")

\* C27: handleSprayRecord with no pesticide selected changes neither sprayLogs
\* nor the form; with one selected it puts exactly one record, built from the
\* form, in front of sprayLogs and resets sprayOpen, selectedPesticide,
\* sprayAmount and sprayArea. No step removes or changes a record sprayLogs
\* holds, and a change of page changes neither sprayLogs nor corrections.
C27_RecordFrame ==
  /\ [][(lastHandler' = "record" /\ today' = today) =>
          IF selectedPesticide = "none"
          THEN UNCHANGED << sprayLogs, formVars >>
          ELSE /\ Len(sprayLogs') = Len(sprayLogs) + 1
               /\ sprayLogs'[1] =
                    [date |-> today, disease |-> sprayOpen,
                     pesticide |-> selectedPesticide,
                     amount |-> IF sprayAmount = "" THEN "-" ELSE sprayAmount,
                     area |-> IF sprayArea = "" THEN "-" ELSE sprayArea]
               /\ sprayOpen' = "none" /\ selectedPesticide' = "none"
               /\ sprayAmount' = "" /\ sprayArea' = ""]_vars
  /\ [][\/ sprayLogs' = sprayLogs
        \/ /\ Len(sprayLogs') = Len(sprayLogs) + 1
           /\ SubSeq(sprayLogs', 2, Len(sprayLogs')) = sprayLogs
           /\ lastHandler' = "record"]_vars
  /\ [][page' # page => UNCHANGED << sprayLogs, corrections >>]_vars

\* after one spray was recorded, the record button of the other panel was
\* pressed with no pesticide selected
C27_Witness ==
  /\ lastHandler = "record" /\ sprayOpen \in Diseases /\ selectedPesticide = "none"
  /\ Len(sprayLogs) = 1 /\ sprayAmount # ""
  /\ ~corrections.date.null

====
